---- MODULE Spec2Model ----
(***************************************************************************)
(* Model of dv/scripts/generate.py: the synthetic ERP / SaaS / payments    *)
(* generator and its CDC event synthesis (generate_erp_cdc).               *)
(*                                                                         *)
(* Values.  A Python str is a sequence of one-character strings, so that   *)
(* concatenation, lower(), replace() and the code-point ordering used by   *)
(* sort_values are computed and not assumed.  A datetime.date is its       *)
(* proleptic Gregorian ordinal (date.toordinal()); isoformat() and         *)
(* pd.to_datetime() convert between ordinals and text.  A DataFrame is a   *)
(* sequence of records (one per row), a dict is a record.  Every call of   *)
(* the seeded generators (random, Faker) is a nondeterministic choice from *)
(* a small sample of the values the call can return.                       *)
(***************************************************************************)
EXTENDS Integers, Sequences, FiniteSets, TLC

\* ------------------------------------------------------------------ bounds
\* rows of a snapshot handed to generate_erp_cdc
MaxRows == 2
\* row counts of a whole run (num_customers, num_addresses, ...)
NumCustomers == 1
NumAddresses == 1
NumProducts == 1
NumOrders == 1
NumPayments == 2

\* ------------------------------------------------------------------ text
\* None: not a sequence of single characters, so it differs from every str.
None == <<"None">>

Upper == <<"A","B","C","D","E","F","G","H","I","J","K","L","M",
           "N","O","P","Q","R","S","T","U","V","W","X","Y","Z">>
Lower == <<"a","b","c","d","e","f","g","h","i","j","k","l","m",
           "n","o","p","q","r","s","t","u","v","w","x","y","z">>
Digit == <<"0","1","2","3","4","5","6","7","8","9">>

IndexIn(c, seq) == IF \E i \in DOMAIN seq : seq[i] = c
                   THEN CHOOSE i \in DOMAIN seq : seq[i] = c
                   ELSE 0

\* ord(c) for the characters the generator produces
Code(c) ==
    IF IndexIn(c, Digit) > 0 THEN 47 + IndexIn(c, Digit)
    ELSE IF IndexIn(c, Upper) > 0 THEN 64 + IndexIn(c, Upper)
    ELSE IF IndexIn(c, Lower) > 0 THEN 96 + IndexIn(c, Lower)
    ELSE IF c = " " THEN 32
    ELSE IF c = "-" THEN 45
    ELSE 47 \* "/"

Chars == {Digit[i] : i \in DOMAIN Digit} \cup {Upper[i] : i \in DOMAIN Upper}
         \cup {Lower[i] : i \in DOMAIN Lower} \cup {" ", "-", "/"}
CodeTable == [c \in Chars |-> Code(c)]

\* the first index at which a and b differ (one past the shorter when one
\* is a prefix of the other)
RECURSIVE FirstDiff(_, _, _)
FirstDiff(a, b, k) ==
    IF k > Len(a) \/ k > Len(b) \/ a[k] # b[k] THEN k ELSE FirstDiff(a, b, k + 1)

\* str < str : by the first differing code point, a proper prefix is smaller
StrLess(a, b) ==
    LET k == FirstDiff(a, b, 1)
    IN  IF k > Len(b) THEN FALSE
        ELSE IF k > Len(a) THEN TRUE
        ELSE CodeTable[a[k]] < CodeTable[b[k]]

\* str.lower()
StrLower(s) ==
    [j \in DOMAIN s |-> IF IndexIn(s[j], Upper) > 0
                        THEN Lower[IndexIn(s[j], Upper)] ELSE s[j]]

StartsWithAt(s, j, old) ==
    /\ j + Len(old) - 1 <= Len(s)
    /\ \A k \in 1..Len(old) : s[j + k - 1] = old[k]

\* str.replace(old, new): every non-overlapping occurrence, left to right
RECURSIVE ReplaceFrom(_, _, _, _)
ReplaceFrom(s, j, old, new) ==
    IF j > Len(s) THEN <<>>
    ELSE IF StartsWithAt(s, j, old)
         THEN new \o ReplaceFrom(s, j + Len(old), old, new)
         ELSE <<s[j]>> \o ReplaceFrom(s, j + 1, old, new)

StrReplace(s, old, new) == ReplaceFrom(s, 1, old, new)

\* ------------------------------------------------------------------ dates
IsLeap(y) == y % 4 = 0 /\ (y % 100 # 0 \/ y % 400 = 0)

DaysInMonth(y, m) ==
    IF m = 2 THEN (IF IsLeap(y) THEN 29 ELSE 28)
    ELSE IF m \in {4, 6, 9, 11} THEN 30 ELSE 31

DaysBeforeYear(y) ==
    (y - 1) * 365 + (y - 1) \div 4 - (y - 1) \div 100 + (y - 1) \div 400

RECURSIVE DaysBeforeMonth(_, _)
DaysBeforeMonth(y, m) ==
    IF m = 1 THEN 0 ELSE DaysBeforeMonth(y, m - 1) + DaysInMonth(y, m - 1)

\* date(y, m, d).toordinal()
Date(y, m, d) == DaysBeforeYear(y) + DaysBeforeMonth(y, m) + d

YearOf(n) ==
    CHOOSE y \in (n \div 366)..(n \div 365 + 1) :
        y >= 1 /\ DaysBeforeYear(y) < n /\ n <= DaysBeforeYear(y + 1)

MonthIn(y, r) ==
    CHOOSE m \in 1..12 :
        DaysBeforeMonth(y, m) < r /\ r <= DaysBeforeMonth(y, m) + DaysInMonth(y, m)

MonthOf(n) == MonthIn(YearOf(n), n - DaysBeforeYear(YearOf(n)))

DayOf(n) == n - DaysBeforeYear(YearOf(n)) - DaysBeforeMonth(YearOf(n), MonthOf(n))

Digits2(v) == <<Digit[((v \div 10) % 10) + 1], Digit[(v % 10) + 1]>>
Digits4(v) == <<Digit[((v \div 1000) % 10) + 1], Digit[((v \div 100) % 10) + 1]>> \o Digits2(v)

\* date.isoformat() and str(date): YYYY-MM-DD
isoformat(n) ==
    LET y == YearOf(n)
        r == n - DaysBeforeYear(y)
        m == MonthIn(y, r)
    IN  Digits4(y) \o <<"-">> \o Digits2(m) \o <<"-">> \o Digits2(r - DaysBeforeMonth(y, m))

DigitVal(c) == IndexIn(c, Digit) - 1

IsIsoDate(s) ==
    /\ Len(s) = 10
    /\ s[5] = "-" /\ s[8] = "-"
    /\ \A j \in {1, 2, 3, 4, 6, 7, 9, 10} : IndexIn(s[j], Digit) > 0
    /\ LET y == 1000 * DigitVal(s[1]) + 100 * DigitVal(s[2]) + 10 * DigitVal(s[3]) + DigitVal(s[4])
           m == 10 * DigitVal(s[6]) + DigitVal(s[7])
           d == 10 * DigitVal(s[9]) + DigitVal(s[10])
       IN  y >= 1 /\ m \in 1..12 /\ d >= 1 /\ d <= DaysInMonth(y, m)

\* pd.to_datetime(s).date() for the texts of the model: an ISO date parses
\* to its date, any other text raises (ParseError).
ParseError == 0 - 1
to_datetime(s) ==
    IF IsIsoDate(s)
    THEN Date(1000 * DigitVal(s[1]) + 100 * DigitVal(s[2]) + 10 * DigitVal(s[3]) + DigitVal(s[4]),
              10 * DigitVal(s[6]) + DigitVal(s[7]),
              10 * DigitVal(s[9]) + DigitVal(s[10]))
    ELSE ParseError

\* ------------------------------------------------------------------ draws
\* fake.date_between(start_date, end_date): a date of [start_date, end_date];
\* the sample holds both ends.
date_between(lo, hi) == {lo, hi}

\* random.randint(a, b): an integer of a..b; the sample holds the largest,
\* the draw that moves a timestamp furthest.
randint(a, b) == {b}

\* random_string(prefix, length=5): prefix followed by 5 random digits
DigitSamples == {<<"0","0","0","0","1">>}
random_string(prefix) == {prefix \o d : d \in DigitSamples}

\* random_country(), random_customer_name() and the Faker texts
random_country == {<<"U","S">>}
random_customer_name == {<<"A","c","m","e">>}
fake_city == {<<"O","s","l","o">>}
fake_state == {<<"O","h","i","o">>}
fake_postcode == {<<"1","2","3","4","5">>}
fake_street_address == {<<"1"," ","M","a","i","n">>}
fake_word == {<<"B","o","l","t">>}

\* random.choice([0.9, 0.95, 1.05, 1.1]) in percent; the sample holds one
\* factor below and one above 1
FactorSamples == {95, 110}

\* round(x, 2) of a price held in cents, x = cents * pct / 100: the nearest
\* cent; on a decimal tie the binary float decides, either neighbour.
RoundCents(cents, pct) ==
    LET q == (cents * pct) \div 100
        r == (cents * pct) % 100
    IN  IF r < 50 THEN {q} ELSE IF r > 50 THEN {q + 1} ELSE {q, q + 1}

\* ------------------------------------------------------------------ tables
Tables == {"erp_customers", "erp_customer_addresses", "erp_products"}
KeyCol(t) == IF t = "erp_products" THEN "product_id" ELSE "customer_id"

\* mutant: the null-key filter keeps every row
notna_all(v) == TRUE

notna(v) == v # None

\* _mutate_row_for_table(row, table_name): the rows it can return
mutate_row_for_table(row, t) ==
    IF t = "erp_customers"
    THEN {[row EXCEPT !.country = c] : c \in random_country}
         \cup {[row EXCEPT !.customer_name = n] : n \in random_customer_name}
    ELSE IF t = "erp_customer_addresses"
    THEN {[row EXCEPT !.city = c] : c \in fake_city}
         \cup {[row EXCEPT !.state = c] : c \in fake_state}
         \cup {[row EXCEPT !.postal_code = c] : c \in fake_postcode}
    ELSE IF t = "erp_products"
    THEN {[row EXCEPT !.price = p] :
              p \in UNION {RoundCents(row.price, f) : f \in FactorSamples}}
         \cup {[row EXCEPT !.product_name = row.product_name \o <<" ","v","2">>]}
    ELSE {row}

\* ------------------------------------------------------------------ sort
\* tuple order of sort_values(by=[key_col, "cdc_ts", "cdc_seq"])
EventLess(a, b, k) ==
    \/ StrLess(a[k], b[k])
    \/ a[k] = b[k] /\ StrLess(a.cdc_ts, b.cdc_ts)
    \/ a[k] = b[k] /\ a.cdc_ts = b.cdc_ts /\ a.cdc_seq < b.cdc_seq

\* mutant: the frame is returned in emission order
sort_values_unsorted(recs, k) == recs

\* e placed before the first element greater than it (stable)
InsertSorted(s, e, k) ==
    LET after == {j \in DOMAIN s : EventLess(e, s[j], k)}
        pos == IF after = {} THEN Len(s) + 1
               ELSE CHOOSE j \in after : \A j2 \in after : j <= j2
    IN  SubSeq(s, 1, pos - 1) \o <<e>> \o SubSeq(s, pos, Len(s))

RECURSIVE SortFrom(_, _, _)
SortFrom(recs, n, k) ==
    IF n = 0 THEN <<>> ELSE InsertSorted(SortFrom(recs, n - 1, k), recs[n], k)

sort_values(recs, k) == SortFrom(recs, Len(recs), k)

\* ------------------------------------------------------------------ state
VARIABLES
    base_df, table_name, key_col, start, end,   \* arguments of generate_erp_cdc
    working_df, idx, row, current_ts, cdc_seq,  \* its locals
    records, cdc_df, pc,
    stage,                                      \* position of the whole run
    erp_customers_df, erp_addresses_df, erp_products_df,
    saas_orders, payments,
    noise                                       \* history: payments that took the else branch

cdc_vars == <<base_df, table_name, key_col, start, end,
              working_df, idx, row, current_ts, cdc_seq, records, cdc_df, pc>>
run_vars == <<stage, erp_customers_df, erp_addresses_df, erp_products_df,
              saas_orders, payments, noise>>
vars == <<cdc_vars, run_vars>>

\* snapshot rows handed to generate_erp_cdc: rows without a key, rows that
\* share a key and rows with different keys; created_at unparseable, within
\* [start, end] and after end
Cust1 == <<"C","U","S","T","0","0","0","0","1">>
Cust2 == <<"C","U","S","T","0","0","0","0","2">>
Prod1 == <<"P","R","O","D","0","0","0","0","1">>
NotADate == <<"n","/","a">>

CustomerRow(k, c) ==
    [customer_id |-> k, customer_name |-> <<"A","c","m","e">>,
     country |-> <<"D","E">>, created_at |-> c]
AddressRow(k) ==
    [customer_id |-> k, address |-> <<"1"," ","M","a","i","n">>,
     city |-> <<"R","o","m","e">>, state |-> <<"U","t","a","h">>,
     postal_code |-> <<"0","0","0","0","0">>]
ProductRow(k) ==
    [product_id |-> k, product_name |-> <<"B","o","l","t">>,
     category |-> <<"H","a","r","d","w","a","r","e">>, price |-> 1050]

RowSamples(t) ==
    IF t = "erp_customers"
    THEN {CustomerRow(None, isoformat(Date(2021, 6, 30))),
          CustomerRow(Cust1, NotADate),
          CustomerRow(Cust1, isoformat(Date(2021, 6, 30))),
          CustomerRow(Cust2, isoformat(Date(2021, 6, 30))),
          CustomerRow(Cust2, isoformat(Date(2024, 6, 30)))}
    ELSE IF t = "erp_customer_addresses"
    THEN {AddressRow(None), AddressRow(Cust1), AddressRow(Cust2)}
    ELSE {ProductRow(None), ProductRow(Prod1)}

Snapshots(t) == UNION {[1..n -> RowSamples(t)] : n \in 0..MaxRows}

NoRow == <<>>

\* a call of generate_erp_cdc on any snapshot, with the default start and end
Init ==
    /\ table_name \in Tables
    /\ key_col = KeyCol(table_name)
    /\ base_df \in Snapshots(table_name)
    /\ start = Date(2020, 1, 1)
    /\ end = Date(2022, 12, 31)
    /\ working_df = <<>> /\ idx = 0 /\ row = NoRow
    /\ current_ts = 0 /\ cdc_seq = 0
    /\ records = <<>> /\ cdc_df = <<>>
    /\ pc = "entry"
    /\ stage = "direct"
    /\ erp_customers_df = <<>> /\ erp_addresses_df = <<>> /\ erp_products_df = <<>>
    /\ saas_orders = <<>> /\ payments = <<>> /\ noise = <<>>

args == <<base_df, table_name, key_col, start, end>>

\* working_df = base_df[base_df[key_col].notna()].reset_index(drop=True)
CdcFilter ==
    /\ pc = "entry"
    /\ working_df' = SelectSeq(base_df, LAMBDA r : notna(r[key_col]))
    /\ idx' = 1
    /\ records' = <<>>
    /\ pc' = "insert"
    /\ UNCHANGED <<run_vars, args, row, current_ts, cdc_seq, cdc_df>>

Event(op, ts, seq, r) ==
    r @@ [cdc_table |-> table_name, cdc_op |-> op, cdc_ts |-> isoformat(ts), cdc_seq |-> seq]

\* mutant: a parse failure falls back to a fixed date after every end bound
BaseTs_fixed(r, fb) ==
    IF "created_at" \in DOMAIN r /\ r.created_at # None
    THEN IF to_datetime(r.created_at) # ParseError
         THEN to_datetime(r.created_at)
         ELSE Date(2026, 1, 1)
    ELSE fb

\* base timestamp of a row; fb is the date fake.date_between returns
BaseTs(r, fb) ==
    IF "created_at" \in DOMAIN r /\ notna(r.created_at)
    THEN IF to_datetime(r.created_at) # ParseError
         THEN to_datetime(r.created_at)
         ELSE fb
    ELSE fb

\* mutant: the Insert event is appended twice
CdcInsert_twice ==
    /\ pc = "insert" /\ idx <= Len(working_df)
    /\ \E fb \in date_between(start, end) :
         LET r == working_df[idx]
             e == r @@ [cdc_table |-> table_name, cdc_op |-> "I",
                        cdc_ts |-> isoformat(fb), cdc_seq |-> 1]
         IN  /\ row' = r
             /\ cdc_seq' = 1
             /\ records' = Append(Append(records, e), e)
             /\ current_ts' = fb
    /\ pc' = "update"
    /\ UNCHANGED <<run_vars, base_df, table_name, key_col, start, end, working_df, idx, cdc_df>>

CdcInsert ==
    /\ pc = "insert" /\ idx <= Len(working_df)
    /\ \E fb \in date_between(start, end) :
         LET r == working_df[idx]
             base_ts == BaseTs(r, fb)
         IN  /\ row' = r
             /\ cdc_seq' = 1
             /\ records' = Append(records, Event("I", base_ts, 1, r))
             /\ current_ts' = base_ts
    /\ pc' = "update"
    /\ UNCHANGED <<run_vars, args, working_df, idx, cdc_df>>

\* mutant: no clamp to end
Clamp_none(ts) == ts

Clamp(ts) == IF ts > end THEN end ELSE ts

\* mutant: the Update leaves row at the state before the update
CdcUpdate_stale ==
    /\ pc = "update"
    /\ \E delta_days \in randint(1, 365), updated_row \in mutate_row_for_table(row, table_name) :
         /\ cdc_seq' = cdc_seq + 1
         /\ records' = Append(records,
                updated_row @@ [cdc_table |-> table_name, cdc_op |-> "U",
                                cdc_ts |-> isoformat(IF current_ts + delta_days > end THEN end
                                                     ELSE current_ts + delta_days),
                                cdc_seq |-> cdc_seq + 1])
         /\ current_ts' = (IF current_ts + delta_days > end THEN end ELSE current_ts + delta_days)
    /\ pc' = "delete"
    /\ UNCHANGED <<run_vars, base_df, table_name, key_col, start, end, working_df, idx, row, cdc_df>>

\* random.random() < p_update
CdcUpdate ==
    /\ pc = "update"
    /\ \E delta_days \in randint(1, 365), updated_row \in mutate_row_for_table(row, table_name) :
         LET upd_ts == Clamp(current_ts + delta_days)
         IN  /\ cdc_seq' = cdc_seq + 1
             /\ records' = Append(records, Event("U", upd_ts, cdc_seq + 1, updated_row))
             /\ current_ts' = upd_ts
             /\ row' = updated_row
    /\ pc' = "delete"
    /\ UNCHANGED <<run_vars, args, working_df, idx, cdc_df>>

CdcNoUpdate ==
    /\ pc = "update"
    /\ pc' = "delete"
    /\ UNCHANGED <<run_vars, args, working_df, idx, row, current_ts, cdc_seq, records, cdc_df>>

\* random.random() < p_delete
CdcDelete ==
    /\ pc = "delete"
    /\ \E delta_days \in randint(1, 365) :
         LET del_ts == Clamp(current_ts + delta_days)
         IN  /\ cdc_seq' = cdc_seq + 1
             /\ records' = Append(records, Event("D", del_ts, cdc_seq + 1, row))
    /\ pc' = "insert" /\ idx' = idx + 1
    /\ UNCHANGED <<run_vars, args, working_df, row, current_ts, cdc_df>>

CdcNoDelete ==
    /\ pc = "delete"
    /\ pc' = "insert" /\ idx' = idx + 1
    /\ UNCHANGED <<run_vars, args, working_df, row, current_ts, cdc_seq, records, cdc_df>>

\* cdc_df = pd.DataFrame(records); sort_values(...); to_csv; return
CdcSort ==
    /\ pc = "insert" /\ idx > Len(working_df) /\ records # <<>>
    /\ cdc_df' = sort_values(records, key_col)
    /\ pc' = "returned"
    /\ UNCHANGED <<run_vars, args, working_df, idx, row, current_ts, cdc_seq, records>>

\* pd.DataFrame([]) has no columns: sort_values raises KeyError(key_col)
CdcKeyError ==
    /\ pc = "insert" /\ idx > Len(working_df) /\ records = <<>>
    /\ pc' = "raised"
    /\ UNCHANGED <<run_vars, args, working_df, idx, row, current_ts, cdc_seq, records, cdc_df>>

CdcStep ==
    \/ CdcFilter \/ CdcInsert \/ CdcUpdate \/ CdcNoUpdate
    \/ CdcDelete \/ CdcNoDelete \/ CdcSort \/ CdcKeyError

Next == CdcStep

Spec == Init /\ [][Next]_vars

\* ------------------------------------------------------------------ run
\* inconsistent_id(base_id); dash and lower are its two random.random() tests
inconsistent_id(base_id, dash, lower) ==
    LET a == IF dash THEN StrReplace(base_id, <<"C","U","S","T">>, <<"C","U","S","T","-">>)
             ELSE base_id
    IN  IF lower THEN StrLower(a) ELSE a

\* the outcomes of the two tests of inconsistent_id that the run samples
FlagSamples == {<<FALSE, FALSE>>, <<TRUE, TRUE>>}

\* introduce_null(value, prob); keep is the test random.random() > prob
introduce_null(value, keep) == IF keep THEN value ELSE None

\* the outcomes of that test that the run samples
KeepSamples == {TRUE}

\* round(random.uniform(10, 500), 2), in cents
PriceSamples == {1050}

dropna(col) == SelectSeq(col, notna)
Column(df, c) == [j \in DOMAIN df |-> df[j][c]]
Elems(seq) == {seq[j] : j \in DOMAIN seq}

RunInit ==
    /\ stage = "customers"
    /\ erp_customers_df = <<>> /\ erp_addresses_df = <<>> /\ erp_products_df = <<>>
    /\ saas_orders = <<>> /\ payments = <<>> /\ noise = <<>>
    /\ base_df = <<>> /\ table_name = "" /\ key_col = ""
    /\ start = 0 /\ end = 0
    /\ working_df = <<>> /\ idx = 0 /\ row = NoRow
    /\ current_ts = 0 /\ cdc_seq = 0
    /\ records = <<>> /\ cdc_df = <<>>
    /\ pc = "idle"

\* one iteration of the customers loop of generate_erp_data
GenCustomer ==
    /\ stage = "customers" /\ Len(erp_customers_df) < NumCustomers
    /\ \E raw_id \in random_string(<<"C","U","S","T">>), f \in FlagSamples, has_id \in BOOLEAN,
          name \in random_customer_name, c \in random_country,
          created_at \in date_between(Date(2020, 1, 1), Date(2022, 12, 31)) :
         \E keep \in KeepSamples :
            LET country == introduce_null(c, keep)
                cust_id == IF has_id THEN inconsistent_id(raw_id, f[1], f[2]) ELSE None
            IN  erp_customers_df' = Append(erp_customers_df,
                    [customer_id |-> cust_id, customer_name |-> name,
                     country |-> country, created_at |-> isoformat(created_at)])
    /\ stage' = IF Len(erp_customers_df') = NumCustomers THEN "addresses" ELSE stage
    /\ UNCHANGED <<cdc_vars, erp_addresses_df, erp_products_df, saas_orders, payments, noise>>

\* one iteration of the addresses loop
GenAddress ==
    /\ stage = "addresses" /\ Len(erp_addresses_df) < NumAddresses
    /\ LET customer_ids == dropna(Column(erp_customers_df, "customer_id"))
       IN  \E cust_id \in Elems(customer_ids) \cup {None},
              address \in fake_street_address, city \in fake_city,
              postal_code \in fake_postcode, state \in fake_state :
             erp_addresses_df' = Append(erp_addresses_df,
                 [customer_id |-> cust_id, address |-> address, city |-> city,
                  state |-> state, postal_code |-> postal_code])
    /\ stage' = IF Len(erp_addresses_df') = NumAddresses THEN "products" ELSE stage
    /\ UNCHANGED <<cdc_vars, erp_customers_df, erp_products_df, saas_orders, payments, noise>>

\* one iteration of the products loop
GenProduct ==
    /\ stage = "products" /\ Len(erp_products_df) < NumProducts
    /\ \E product_id \in random_string(<<"P","R","O","D">>), product_name \in fake_word,
          price \in PriceSamples :
         erp_products_df' = Append(erp_products_df,
             [product_id |-> product_id, product_name |-> product_name,
              category |-> <<"H","a","r","d","w","a","r","e">>, price |-> price])
    /\ stage' = IF Len(erp_products_df') = NumProducts THEN "cdc_customers" ELSE stage
    /\ UNCHANGED <<cdc_vars, erp_customers_df, erp_addresses_df, saas_orders, payments, noise>>

CdcStages == {"cdc_customers", "cdc_addresses", "cdc_products"}

\* the three calls of generate_erp_cdc in generate_erp_data
CallCdc ==
    /\ stage \in CdcStages /\ pc = "idle"
    /\ table_name' = (IF stage = "cdc_customers" THEN "erp_customers"
                      ELSE IF stage = "cdc_addresses" THEN "erp_customer_addresses"
                      ELSE "erp_products")
    /\ key_col' = (IF stage = "cdc_products" THEN "product_id" ELSE "customer_id")
    /\ base_df' = (IF stage = "cdc_customers" THEN erp_customers_df
                   ELSE IF stage = "cdc_addresses" THEN erp_addresses_df
                   ELSE erp_products_df)
    /\ start' = Date(2020, 1, 1)
    /\ end' = Date(2024, 12, 31)
    /\ pc' = "entry"
    /\ UNCHANGED <<run_vars, working_df, idx, row, current_ts, cdc_seq, records, cdc_df>>

\* generate_erp_cdc returns: its frame is gone; the returned frame is only
\* handed on to the caller of generate_erp_data, which never reads it.  After
\* the last call generate_erp_data returns and erp_addresses_df is gone too.
ReturnCdc ==
    /\ stage \in CdcStages /\ pc = "returned"
    /\ stage' = (IF stage = "cdc_customers" THEN "cdc_addresses"
                 ELSE IF stage = "cdc_addresses" THEN "cdc_products"
                 ELSE "orders")
    /\ erp_addresses_df' = (IF stage = "cdc_products" THEN <<>> ELSE erp_addresses_df)
    /\ base_df' = <<>> /\ table_name' = "" /\ key_col' = ""
    /\ start' = 0 /\ end' = 0
    /\ working_df' = <<>> /\ idx' = 0 /\ row' = NoRow
    /\ current_ts' = 0 /\ cdc_seq' = 0
    /\ records' = <<>> /\ cdc_df' = <<>>
    /\ pc' = "idle"
    /\ UNCHANGED <<erp_customers_df, erp_products_df, saas_orders, payments, noise>>

\* the KeyError of generate_erp_cdc is caught nowhere: the run ends
FailCdc ==
    /\ stage \in CdcStages /\ pc = "raised"
    /\ stage' = "failed"
    /\ UNCHANGED <<cdc_vars, erp_customers_df, erp_addresses_df, erp_products_df,
                   saas_orders, payments, noise>>

\* one iteration of the orders loop of generate_saas_data (the fields that
\* later code reads: order_id, and customer_ref with it)
GenOrder ==
    /\ stage = "orders" /\ Len(saas_orders) < NumOrders
    /\ LET customer_ids == dropna(Column(erp_customers_df, "customer_id"))
       IN  \E order_id \in random_string(<<"O","R","D">>),
              fresh \in random_string(<<"C","U","S","T">>) :
             \E customer_ref \in Elems(customer_ids) \cup {fresh} :
                saas_orders' = Append(saas_orders,
                    [order_id |-> order_id, customer_ref |-> customer_ref])
    /\ stage' = IF Len(saas_orders') = NumOrders THEN "payments" ELSE stage
    /\ UNCHANGED <<cdc_vars, erp_customers_df, erp_addresses_df, erp_products_df,
                   payments, noise>>

\* mutant: the else branch injects an order_ref made up on the spot
GenPayment_dangling ==
    /\ stage = "payments" /\ Len(payments) < NumPayments
    /\ \E payment_id \in random_string(<<"P","A","Y">>), keep \in BOOLEAN :
         \E order_ref \in (IF keep THEN Elems(Column(saas_orders, "order_id")) \cup {None}
                           ELSE random_string(<<"O","R","D">>)) :
            /\ payments' = Append(payments, [payment_id |-> payment_id, order_ref |-> order_ref])
            /\ noise' = Append(noise, ~keep)
    /\ stage' = IF Len(payments') = NumPayments THEN "done" ELSE stage
    /\ UNCHANGED <<cdc_vars, erp_customers_df, erp_addresses_df, erp_products_df, saas_orders>>

\* one iteration of the payments loop of generate_payments_data;
\* keep is the test random.random() > 0.065
GenPayment ==
    /\ stage = "payments" /\ Len(payments) < NumPayments
    /\ LET order_ids == Column(saas_orders, "order_id")
       IN  \E payment_id \in random_string(<<"P","A","Y">>), keep \in BOOLEAN :
             \E order_ref \in (IF keep THEN Elems(order_ids) \cup {None} ELSE {None}) :
                /\ payments' = Append(payments,
                       [payment_id |-> payment_id, order_ref |-> order_ref])
                /\ noise' = Append(noise, ~keep)
    /\ stage' = IF Len(payments') = NumPayments THEN "done" ELSE stage
    /\ UNCHANGED <<cdc_vars, erp_customers_df, erp_addresses_df, erp_products_df, saas_orders>>

RunNext ==
    \/ GenCustomer \/ GenAddress \/ GenProduct
    \/ CallCdc \/ CdcStep \/ ReturnCdc \/ FailCdc
    \/ GenOrder \/ GenPayment

RunSpec == RunInit /\ [][RunNext]_vars

\* ------------------------------------------------------------------ claims
Returned == pc = "returned"

\* the table columns of an event, without the four cdc_ columns
Cols(e) == [c \in DOMAIN e \ {"cdc_table", "cdc_op", "cdc_ts", "cdc_seq"} |-> e[c]]

\* rows of the snapshot that have a business key, in snapshot order
KeyedRows == SelectSeq(base_df, LAMBDA r : r[key_col] # None)

\* positions of the Insert events in emission order: the n-th Insert is the
\* event of the n-th keyed row
InsertPos == SelectSeq([j \in DOMAIN records |-> j], LAMBDA j : records[j].cdc_op = "I")

OpsOfKey(log, k, op) == {j \in DOMAIN log : log[j][key_col] = k /\ log[j].cdc_op = op}

\* C1: in a returned log every key has exactly one Insert, with cdc_seq 1, at
\* most one Update, with cdc_seq 2, and at most one Delete, numbered next
\* after the key's earlier events.
C1_PerKeySequence ==
    Returned =>
        \A k \in {cdc_df[j][key_col] : j \in DOMAIN cdc_df} :
            /\ Cardinality(OpsOfKey(cdc_df, k, "I")) = 1
            /\ \A j \in OpsOfKey(cdc_df, k, "I") : cdc_df[j].cdc_seq = 1
            /\ Cardinality(OpsOfKey(cdc_df, k, "U")) <= 1
            /\ \A j \in OpsOfKey(cdc_df, k, "U") : cdc_df[j].cdc_seq = 2
            /\ Cardinality(OpsOfKey(cdc_df, k, "D")) <= 1
            /\ \A j \in OpsOfKey(cdc_df, k, "D") :
                   cdc_df[j].cdc_seq = 1 + Cardinality(OpsOfKey(cdc_df, k, "I"))
                                         + Cardinality(OpsOfKey(cdc_df, k, "U"))

\* C2: no event is emitted for a row whose business key is null, and once
\* the loop has ended the log holds exactly one Insert per keyed row.
C2_NullKeysExcluded ==
    /\ \A j \in DOMAIN records : records[j][key_col] # None
    /\ \A j \in DOMAIN cdc_df : cdc_df[j][key_col] # None
    /\ pc \in {"returned", "raised"} =>
           Len(InsertPos) = Cardinality({j \in DOMAIN base_df : base_df[j][key_col] # None})
    /\ Returned =>
           Cardinality({j \in DOMAIN cdc_df : cdc_df[j].cdc_op = "I"})
               = Cardinality({j \in DOMAIN base_df : base_df[j][key_col] # None})

C2_Witness ==
    /\ Returned /\ stage = "direct"
    /\ Len(base_df) = 2
    /\ base_df[1][key_col] = None /\ base_df[2][key_col] # None
    /\ Len(cdc_df) = 3

\* C3: the events of one row carry non-decreasing timestamps in sequence
\* order: an Update or Delete is never dated before the event emitted just
\* before it for the same row.
C3_TimestampsNonDecreasing ==
    \A j \in DOMAIN records :
        records[j].cdc_seq > 1 =>
            to_datetime(records[j - 1].cdc_ts) <= to_datetime(records[j].cdc_ts)

RunStart == Date(2020, 1, 1)
RunEnd == Date(2024, 12, 31)
InBounds(e) == LET ts == to_datetime(e.cdc_ts) IN RunStart <= ts /\ ts <= RunEnd

\* C4: in a whole run every event of every CDC log is dated within
\* 2020-01-01 .. 2024-12-31.
C4_RunTimestampsInBounds ==
    /\ \A j \in DOMAIN records : InBounds(records[j])
    /\ \A j \in DOMAIN cdc_df : InBounds(cdc_df[j])

C4_Witness ==
    /\ Returned /\ stage = "cdc_addresses"
    /\ \E j \in DOMAIN cdc_df :
          cdc_df[j].cdc_op = "D" /\ to_datetime(cdc_df[j].cdc_ts) = RunEnd
    /\ \E j \in DOMAIN cdc_df :
          cdc_df[j].cdc_op = "I" /\ to_datetime(cdc_df[j].cdc_ts) = RunEnd

CustomersLog == stage = "cdc_customers" /\ Returned
KeyedCustomers == Cardinality({j \in DOMAIN erp_customers_df : erp_customers_df[j].customer_id # None})

OrderIds == {saas_orders[j].order_id : j \in DOMAIN saas_orders}

\* C7 as stated: a payment of the noise branch carries a dangling order_ref
\* (not null, not an order_id); any other payment a null or a known one.
C7_NoiseIsDangling ==
    \A j \in DOMAIN payments :
        IF noise[j]
        THEN payments[j].order_ref # None /\ payments[j].order_ref \notin OrderIds
        ELSE payments[j].order_ref = None \/ payments[j].order_ref \in OrderIds

\* C7 amended: a payment of the noise branch carries a null order_ref; any
\* other payment a null one or the order_id of an order: no order_ref dangles.
C7_NoiseIsNull ==
    \A j \in DOMAIN payments :
        IF noise[j]
        THEN payments[j].order_ref = None
        ELSE payments[j].order_ref = None \/ payments[j].order_ref \in OrderIds

C7_Witness ==
    /\ stage = "done"
    /\ \E j \in DOMAIN payments : noise[j]
    /\ \E j \in DOMAIN payments : ~noise[j] /\ payments[j].order_ref \in OrderIds

\* C8: a Delete carries the columns of the Update of its row when there is
\* one, else those of the Insert; an Insert carries the snapshot row; Update
\* and Delete keep the business key of the Insert.
C8_DeleteCarriesLatestState ==
    /\ \A j \in DOMAIN records :
          /\ records[j].cdc_op = "D" => Cols(records[j]) = Cols(records[j - 1])
          /\ records[j].cdc_op \in {"U", "D"} =>
                 /\ records[j - 1].cdc_op \in (IF records[j].cdc_op = "U" THEN {"I"} ELSE {"I", "U"})
                 /\ records[j][key_col] = records[j - 1][key_col]
    /\ \A n \in DOMAIN InsertPos : Cols(records[InsertPos[n]]) = KeyedRows[n]

C8_Witness ==
    /\ Returned /\ stage = "direct"
    /\ \E j \in DOMAIN records :
          /\ records[j].cdc_op = "D" /\ records[j - 1].cdc_op = "U"
          /\ Cols(records[j - 1]) # Cols(records[j - 2])
    /\ \E j \in DOMAIN records :
          records[j].cdc_op = "D" /\ records[j - 1].cdc_op = "I"

\* (key, cdc_ts, cdc_seq) of a is at most that of b, dates taken by the calendar
TripleLeq(a, b) ==
    \/ StrLess(a[key_col], b[key_col])
    \/ /\ a[key_col] = b[key_col]
       /\ LET ta == to_datetime(a.cdc_ts)
              tb == to_datetime(b.cdc_ts)
          IN  ta < tb \/ (ta = tb /\ a.cdc_seq <= b.cdc_seq)

Count(log, e) == Cardinality({j \in DOMAIN log : log[j] = e})

\* C9: the returned log is in (key, cdc_ts, cdc_seq) order and holds exactly
\* the emitted events, each as often as it was emitted.
C9_LogSorted ==
    Returned =>
        /\ \A j \in 1..(Len(cdc_df) - 1) : TripleLeq(cdc_df[j], cdc_df[j + 1])
        /\ Len(cdc_df) = Len(records)
        /\ \A e \in Elems(records) \cup Elems(cdc_df) : Count(cdc_df, e) = Count(records, e)

C9_Witness ==
    /\ Returned /\ stage = "direct"
    /\ Len(records) = 6
    /\ StrLess(records[4][key_col], records[1][key_col])
    /\ cdc_df # records

Unparseable(r) ==
    "created_at" \in DOMAIN r /\ r.created_at # None /\ to_datetime(r.created_at) = ParseError

\* C10: a keyed row whose created_at is not a date does not stop the call:
\* its Insert is emitted with cdc_seq 1 and a date within [start, end], the
\* base timestamp of every row about to be processed is a date, the later
\* rows are still processed, and the call only raises when no row has a key.
C10_BadDateFallsBack ==
    /\ \A n \in DOMAIN InsertPos :
          Unparseable(KeyedRows[n]) =>
              /\ records[InsertPos[n]].cdc_seq = 1
              /\ LET ts == to_datetime(records[InsertPos[n]].cdc_ts)
                 IN  start <= ts /\ ts <= end
    /\ (pc = "insert" /\ idx <= Len(working_df)) =>
           \A fb \in date_between(start, end) : BaseTs(working_df[idx], fb) # ParseError
    /\ pc = "raised" => KeyedRows = <<>>
    /\ Returned => Len(InsertPos) = Len(KeyedRows)

C10_Witness ==
    /\ Returned /\ stage = "direct"
    /\ Len(KeyedRows) = 2
    /\ Unparseable(KeyedRows[1]) /\ ~Unparseable(KeyedRows[2])
    /\ Len(records) = 6
====
